---- MODULE Spec2Model ----
(***************************************************************************)
(* Model of the weather service of kurushqosimi/rocket_factory:            *)
(*   pkg/models/storage.go   WeatherStorage (RWMutex + map[string]*Weather)*)
(*   pkg/models (Weather)    the record type                               *)
(*   cmd/http_server/main.go getWeatherHandler, updateWeatherHandler       *)
(* Every HTTP request is served by its own goroutine; a request is one     *)
(* entry of reqs, and its pc is the position of that goroutine in the      *)
(* handler (and in the storage method the handler calls).                  *)
(***************************************************************************)
EXTENDS Integers, Sequences, FiniteSets, TLC

\* ------------------------------------------------------------------ bounds
\* Total number of requests the server receives in one behaviour.
MaxRequests == 3
\* Number of requests served concurrently.
MaxInFlight == 2
\* Largest value the server clock takes.
MaxClock == 2

\* ------------------------------------------------------------ status codes
StatusOK == 200
StatusBadRequest == 400
StatusNotFound == 404

VARIABLES
    weathers,  \* WeatherStorage.weathers: city -> address of a Weather
    mu,        \* WeatherStorage.mu: the sync.RWMutex
    heap,      \* the Weather values the handlers allocated, by address
    now,       \* the server clock read by time.Now()
    reqs,      \* the requests received so far, each with its goroutine's state
    stored,    \* history: the Weather values UpdateWeather put into the map
    writes     \* history: the map assignments, in the order they were made

vars == <<weathers, mu, heap, now, reqs, stored, writes>>

\* ------------------------------------------------------------------ values
\* The nil *Weather.
Nil == 0

\* The zero time.Time (the value of Weather.UpdatedAt nobody set).
ZeroTime == 0

\* A time a client may put into the updated_at field of a request body:
\* one the server clock never shows.
ClientTime == MaxClock + 1

\* The {city} path parameter: empty, or one of two cities.
PathCities == {"", "Moscow", "Paris"}

\* models.Weather
Weather(c, t, u) == [City |-> c, Temperature |-> t, UpdatedAt |-> u]

\* var weatherUpdate models.Weather: the zero value
ZeroWeather == Weather("", 0, ZeroTime)

\* JSON objects are functions from the member names they carry to values.
EmptyObject == [k \in {} |-> 0]

Object1(k, v) == [x \in {k} |-> v]

Merge(f, g) == [x \in DOMAIN f \cup DOMAIN g |-> IF x \in DOMAIN f THEN f[x] ELSE g[x]]

\* The request bodies a client sends: undecodable, or a JSON object with any
\* of the members city, temperature, updated_at.
Malformed == [wellformed |-> FALSE, json |-> EmptyObject]

WellFormed(o) == [wellformed |-> TRUE, json |-> o]

Bodies ==
    { Malformed,
      WellFormed(EmptyObject),
      WellFormed(Merge(Object1("city", "Paris"),
                 Merge(Object1("temperature", 21), Object1("updated_at", ClientTime)))) }

\* A GET carries no body.
NoBody == WellFormed(EmptyObject)

\* The response body before anything is written.
NoResp == EmptyObject

\* json.NewDecoder(r.Body).Decode(&weatherUpdate): the members present in the
\* object overwrite the fields of the target, the others keep their value.
Decode(o, target) ==
    Weather(IF "city" \in DOMAIN o THEN o["city"] ELSE target.City,
            IF "temperature" \in DOMAIN o THEN o["temperature"] ELSE target.Temperature,
            IF "updated_at" \in DOMAIN o THEN o["updated_at"] ELSE target.UpdatedAt)

\* Mutant: the error of the decode is ignored.
DecodeFails_Never(b) == FALSE

\* The decode of line 113 fails on a body that is not a JSON value of the
\* shape of models.Weather.
DecodeFails(b) == ~b.wellformed

\* The json tags of models.Weather: the member name of each field.
JsonTag(field) ==
    CASE field = "City" -> "city"
      [] field = "Temperature" -> "temperature"
      [] field = "UpdatedAt" -> "updated_at"

\* render.JSON of a whole Weather value.
ToJSON(w) ==
    [k \in {JsonTag(f) : f \in DOMAIN w} |->
        LET f == CHOOSE g \in DOMAIN w : JsonTag(g) = k IN w[f]]

\* ------------------------------------------------------------- the requests
Rids == 1..Len(reqs)

Gets == {r \in Rids : reqs[r].op = "GET"}

Puts == {r \in Rids : reqs[r].op = "PUT"}

InFlight == {r \in Rids : reqs[r].pc # "done"}

\* The PUT requests whose UpdateWeather call has returned.
UpdateReturned == {r \in Puts : reqs[r].pc = "u_render"
                                 \/ (reqs[r].pc = "done" /\ reqs[r].status = StatusOK)}

\* The PUT requests whose UpdateWeather call has done its map assignment.
UpdateAssigned == {r \in Puts : reqs[r].pc = "u_unlock"} \cup UpdateReturned

\* The PUT requests answered 200.
PutAnswered == {r \in Puts : reqs[r].pc = "done" /\ reqs[r].status = StatusOK}

\* A request as it enters its handler. city is the {city} path parameter,
\* weather the *Weather the goroutine holds (what GetWeather returned, or the
\* address of weatherUpdate), status and resp the answer written so far.
\* Two fields are history: seenH, the PUT requests already answered when this
\* one arrived, and seenU, the updates of the same city whose UpdateWeather
\* had returned when this request called into the store.
NewRequest(op, city, body, pc) ==
    [op |-> op, city |-> city, body |-> body, pc |-> pc,
     weather |-> Nil, status |-> 0, resp |-> NoResp,
     seenU |-> {}, seenH |-> Puts \ InFlight]

\* ---------------------------------------------------------------- the store
\* NewWeatherStorage: an empty map and an unlocked RWMutex.
NewWeatherStorage == [k \in {} |-> Nil]

\* The zero sync.RWMutex: w is the writer holding (or draining the readers
\* of) the lock, readers the goroutines holding the read lock, rblocked the
\* RLock callers parked because a writer is pending, wblocked the Lock
\* callers parked behind another writer.
NewRWMutex == [w |-> Nil, readers |-> {}, rblocked |-> {}, wblocked |-> {}]

Init ==
    /\ weathers = NewWeatherStorage
    /\ mu = NewRWMutex
    /\ heap = [a \in {} |-> ZeroWeather]
    /\ now = 1
    /\ reqs = <<>>
    /\ stored = {}
    /\ writes = <<>>

\* A request arrives and its goroutine starts in the handler the router
\* chose.
StartGet(c) ==
    /\ Len(reqs) < MaxRequests
    /\ Cardinality(InFlight) < MaxInFlight
    /\ reqs' = Append(reqs, NewRequest("GET", c, NoBody, "g_param"))
    /\ UNCHANGED <<weathers, mu, heap, now, stored, writes>>

StartPut(c, b) ==
    /\ Len(reqs) < MaxRequests
    /\ Cardinality(InFlight) < MaxInFlight
    /\ reqs' = Append(reqs, NewRequest("PUT", c, b, "u_param"))
    /\ UNCHANGED <<weathers, mu, heap, now, stored, writes>>

\* ------------------------------------------------------- sync.RWMutex (mu)
\* The lock behaves as the Go library documents it: readers share it, a
\* writer excludes everyone, and once a writer has called Lock new readers
\* wait until that writer has had the lock and released it.
\* Mutant: the lock is exclusive for readers too (a plain mutex).
RLockMustWait_Exclusive(m) == m.w # Nil \/ m.readers # {}

\* Mutant: readers never park.
RLockMustWait_Never(m) == FALSE

\* RLock parks the caller while a writer holds the lock or is pending.
RLockMustWait(m) == m.w # Nil

\* Lock parks the caller behind the writer that has the lock or is pending.
LockMustWait(m) == m.w # Nil

\* A pending writer has the lock once the readers that held it have left.
WriterHolds(m, r) == m.w = r /\ m.readers = {}

\* s.mu.RLock() by r.
RLock(m, r) ==
    IF RLockMustWait(m)
    THEN [m EXCEPT !.rblocked = @ \cup {r}]
    ELSE [m EXCEPT !.readers = @ \cup {r}]

\* s.mu.RUnlock() by r.
RUnlock(m, r) == [m EXCEPT !.readers = @ \ {r}]

\* s.mu.Lock() by r: r becomes the pending writer, or parks.
Lock(m, r) ==
    IF LockMustWait(m)
    THEN [m EXCEPT !.wblocked = @ \cup {r}]
    ELSE [m EXCEPT !.w = r, !.wblocked = @ \ {r}]

\* s.mu.Unlock(): the parked readers get the read lock, the writer leaves.
Unlock(m) == [m EXCEPT !.w = Nil, !.readers = @ \cup m.rblocked, !.rblocked = {}]

\* ------------------------------------------------------------ map[string]*Weather
\* Mutant: a missing key yields some entry of the map instead of nil.
MapLookup_Fallback(m, c) ==
    IF c \in DOMAIN m THEN m[c]
    ELSE IF DOMAIN m = {} THEN Nil ELSE m[CHOOSE k \in DOMAIN m : TRUE]

\* weather, ok := s.weathers[city]; nil when !ok
MapLookup(m, c) == IF c \in DOMAIN m THEN m[c] ELSE Nil

\* Mutant: the assignment does not replace an entry the map already has.
MapAssign_KeepFirst(m, k, v) ==
    [x \in DOMAIN m \cup {k} |-> IF x \in DOMAIN m THEN m[x] ELSE v]

\* s.weathers[k] = v
MapAssign(m, k, v) == [x \in DOMAIN m \cup {k} |-> IF x = k THEN v ELSE m[x]]

\* Mutant: an entry is replaced only by a record with a later updatedAt.
UpdateWeather_IfNewer(m, h, a) ==
    IF h[a].City \in DOMAIN m /\ h[m[h[a].City]].UpdatedAt >= h[a].UpdatedAt
    THEN m
    ELSE MapAssign(m, h[a].City, a)

\* Mutant: the map is rebuilt with the new entry alone.
UpdateWeather_Reset(m, h, a) == [x \in {h[a].City} |-> a]

\* UpdateWeather, line 38, as a function of the map: the map after
\* s.weathers[weather.City] = weather, with weather the pointer a into heap h.
UpdateWeather(m, h, a) == MapAssign(m, h[a].City, a)

\* The history entry of an assignment: who made it, under which key, and the
\* pointer and the record it stored.
Write(r, k, a, w) == [by |-> r, key |-> k, ptr |-> a, rec |-> w]

\* &weatherUpdate: the variable lives on the heap, at an address of its own.
Alloc(h, a, v) == [x \in DOMAIN h \cup {a} |-> IF x = a THEN v ELSE h[x]]

\* ------------------------------------------------------------- the handlers
\* Mutant: the handlers take any city, the empty one too.
ParamMissing_Never(c) == FALSE

\* city == "" (the check both handlers start with)
ParamMissing(c) == c = ""

\* http.Error(w, ..., code): the answer carries no record.
Answer(r, code) ==
    reqs' = [reqs EXCEPT ![r].pc = "done", ![r].status = code]

\* getWeatherHandler, lines 86-90.
GetParam(r) ==
    /\ r \in Gets
    /\ reqs[r].pc = "g_param"
    /\ IF ParamMissing(reqs[r].city)
       THEN Answer(r, StatusBadRequest)
       ELSE reqs' = [reqs EXCEPT ![r].pc = "g_rlock"]
    /\ UNCHANGED <<weathers, mu, heap, now, stored, writes>>

\* GetWeather is called and does s.mu.RLock().
GetRLock(r) ==
    /\ r \in Gets
    /\ reqs[r].pc = "g_rlock"
    /\ mu' = RLock(mu, r)
    /\ reqs' = [reqs EXCEPT ![r].pc = IF RLockMustWait(mu) THEN "g_rwait" ELSE "g_lookup",
                            ![r].seenU = {u \in UpdateReturned : reqs[u].city = reqs[r].city}]
    /\ UNCHANGED <<weathers, heap, now, stored, writes>>

\* A parked RLock returns once Unlock has handed the read lock over.
GetRWake(r) ==
    /\ r \in Gets
    /\ reqs[r].pc = "g_rwait"
    /\ r \in mu.readers
    /\ reqs' = [reqs EXCEPT ![r].pc = "g_lookup"]
    /\ UNCHANGED <<weathers, mu, heap, now, stored, writes>>

\* Mutant: a lookup that misses leaves an entry for the city behind.
GetLookup_Insert(r) ==
    /\ r \in Gets
    /\ reqs[r].pc = "g_lookup"
    /\ reqs' = [reqs EXCEPT ![r].pc = "g_runlock",
                            ![r].weather = MapLookup(weathers, reqs[r].city)]
    /\ weathers' = IF reqs[r].city \in DOMAIN weathers THEN weathers
                   ELSE MapAssign(weathers, reqs[r].city, Nil)
    /\ UNCHANGED <<mu, heap, now, stored, writes>>

\* GetWeather, lines 24-29: the lookup, under the read lock.
GetLookup(r) ==
    /\ r \in Gets
    /\ reqs[r].pc = "g_lookup"
    /\ reqs' = [reqs EXCEPT ![r].pc = "g_runlock",
                            ![r].weather = MapLookup(weathers, reqs[r].city)]
    /\ UNCHANGED <<weathers, mu, heap, now, stored, writes>>

\* Mutant: the read lock is released only when the city was found (an
\* early return before an unlock that is not deferred).
GetRUnlock_FoundOnly(r) ==
    /\ r \in Gets
    /\ reqs[r].pc = "g_runlock"
    /\ mu' = IF reqs[r].weather = Nil THEN mu ELSE RUnlock(mu, r)
    /\ reqs' = [reqs EXCEPT ![r].pc = "g_check"]
    /\ UNCHANGED <<weathers, heap, now, stored, writes>>

\* GetWeather returns: the deferred s.mu.RUnlock().
GetRUnlock(r) ==
    /\ r \in Gets
    /\ reqs[r].pc = "g_runlock"
    /\ mu' = RUnlock(mu, r)
    /\ reqs' = [reqs EXCEPT ![r].pc = "g_check"]
    /\ UNCHANGED <<weathers, heap, now, stored, writes>>

\* getWeatherHandler, lines 93-96.
GetCheck(r) ==
    /\ r \in Gets
    /\ reqs[r].pc = "g_check"
    /\ IF reqs[r].weather = Nil
       THEN Answer(r, StatusNotFound)
       ELSE reqs' = [reqs EXCEPT ![r].pc = "g_render"]
    /\ UNCHANGED <<weathers, mu, heap, now, stored, writes>>

\* The fields of models.Weather in the order the encoder reads them.
FieldOrder == <<"City", "Temperature", "UpdatedAt">>

\* render.JSON(w, r, weather), line 98: the encoder reads the record behind
\* the pointer one field at a time, outside the lock; the answer is written
\* once the last field is read.
GetRender(r) ==
    /\ r \in Gets
    /\ reqs[r].pc = "g_render"
    /\ LET n == Cardinality(DOMAIN reqs[r].resp) + 1
           f == FieldOrder[n]
           body == Merge(reqs[r].resp, Object1(JsonTag(f), heap[reqs[r].weather][f]))
       IN reqs' = [reqs EXCEPT ![r].resp = body,
                               ![r].pc = IF n = Len(FieldOrder) THEN "done" ELSE @,
                               ![r].status = IF n = Len(FieldOrder) THEN StatusOK ELSE @]
    /\ UNCHANGED <<weathers, mu, heap, now, stored, writes>>

getWeatherHandler(r) ==
    \/ GetParam(r)
    \/ GetRLock(r)
    \/ GetRWake(r)
    \/ GetLookup(r)
    \/ GetRUnlock(r)
    \/ GetCheck(r)
    \/ GetRender(r)

\* Mutant: the body is decoded over the record the city has now (a partial
\* update).
DecodeTarget_Stored(r) ==
    IF reqs[r].city \in DOMAIN weathers THEN heap[weathers[reqs[r].city]] ELSE ZeroWeather

\* var weatherUpdate models.Weather, line 112.
DecodeTarget(r) == ZeroWeather

\* updateWeatherHandler, lines 105-109.
PutParam(r) ==
    /\ r \in Puts
    /\ reqs[r].pc = "u_param"
    /\ IF ParamMissing(reqs[r].city)
       THEN Answer(r, StatusBadRequest)
       ELSE reqs' = [reqs EXCEPT ![r].pc = "u_decode"]
    /\ UNCHANGED <<weathers, mu, heap, now, stored, writes>>

\* updateWeatherHandler, lines 112-116: weatherUpdate is allocated (its
\* address is taken at line 125) and the body decoded into it.
PutDecode(r) ==
    /\ r \in Puts
    /\ reqs[r].pc = "u_decode"
    /\ IF DecodeFails(reqs[r].body)
       THEN /\ Answer(r, StatusBadRequest)
            /\ UNCHANGED heap
       ELSE /\ heap' = Alloc(heap, r, Decode(reqs[r].body.json, DecodeTarget(r)))
            /\ reqs' = [reqs EXCEPT ![r].pc = "u_city", ![r].weather = r]
    /\ UNCHANGED <<weathers, mu, now, stored, writes>>

\* Mutant: the city of the body is kept.
PutSetCity_Skip(r) ==
    /\ r \in Puts
    /\ reqs[r].pc = "u_city"
    /\ reqs' = [reqs EXCEPT ![r].pc = "u_stamp"]
    /\ UNCHANGED <<weathers, mu, heap, now, stored, writes>>

\* weatherUpdate.City = city, line 119.
PutSetCity(r) ==
    /\ r \in Puts
    /\ reqs[r].pc = "u_city"
    /\ heap' = [heap EXCEPT ![r].City = reqs[r].city]
    /\ reqs' = [reqs EXCEPT ![r].pc = "u_stamp"]
    /\ UNCHANGED <<weathers, mu, now, stored, writes>>

\* Mutant: the time is stamped only when the body carried none.
PutStamp_KeepClient(r) ==
    /\ r \in Puts
    /\ reqs[r].pc = "u_stamp"
    /\ \E t \in now..MaxClock :
          /\ now' = t
          /\ heap' = [heap EXCEPT ![r].UpdatedAt = IF @ = ZeroTime THEN t ELSE @]
    /\ reqs' = [reqs EXCEPT ![r].pc = "u_lock"]
    /\ UNCHANGED <<weathers, mu, stored, writes>>

\* weatherUpdate.UpdatedAt = time.Now(), line 122: the clock has not gone
\* back since it was last read.
PutStamp(r) ==
    /\ r \in Puts
    /\ reqs[r].pc = "u_stamp"
    /\ \E t \in now..MaxClock :
          /\ now' = t
          /\ heap' = [heap EXCEPT ![r].UpdatedAt = t]
    /\ reqs' = [reqs EXCEPT ![r].pc = "u_lock"]
    /\ UNCHANGED <<weathers, mu, stored, writes>>

\* Where a Lock caller stands once it is the pending writer.
AfterLock(m, r) == IF WriterHolds(m, r) THEN "u_assign" ELSE "u_drain"

\* UpdateWeather is called and does s.mu.Lock().
PutLock(r) ==
    /\ r \in Puts
    /\ reqs[r].pc = "u_lock"
    /\ mu' = Lock(mu, r)
    /\ reqs' = [reqs EXCEPT ![r].pc = IF LockMustWait(mu) THEN "u_park" ELSE AfterLock(mu', r),
                            ![r].seenU = {u \in UpdateReturned : reqs[u].city = reqs[r].city}]
    /\ UNCHANGED <<weathers, heap, now, stored, writes>>

\* A parked Lock caller becomes the pending writer when the writer before it
\* has left.
PutLockWake(r) ==
    /\ r \in Puts
    /\ reqs[r].pc = "u_park"
    /\ ~LockMustWait(mu)
    /\ mu' = Lock(mu, r)
    /\ reqs' = [reqs EXCEPT ![r].pc = AfterLock(mu', r)]
    /\ UNCHANGED <<weathers, heap, now, stored, writes>>

\* The pending writer has the lock when the last reader has left.
PutLockDrained(r) ==
    /\ r \in Puts
    /\ reqs[r].pc = "u_drain"
    /\ WriterHolds(mu, r)
    /\ reqs' = [reqs EXCEPT ![r].pc = "u_assign"]
    /\ UNCHANGED <<weathers, mu, heap, now, stored, writes>>

\* Mutant: the key is the city the request body names, when it names one.
PutAssign_KeyFromBody(r) ==
    /\ r \in Puts
    /\ reqs[r].pc = "u_assign"
    /\ weathers' = MapAssign(weathers, Decode(reqs[r].body.json, heap[reqs[r].weather]).City,
                             reqs[r].weather)
    /\ stored' = stored \cup {heap[reqs[r].weather]}
    /\ writes' = Append(writes, Write(r, Decode(reqs[r].body.json, heap[reqs[r].weather]).City,
                                      reqs[r].weather, heap[reqs[r].weather]))
    /\ reqs' = [reqs EXCEPT ![r].pc = "u_unlock"]
    /\ UNCHANGED <<mu, heap, now>>

\* Mutant: an existing entry is updated in place (*s.weathers[k] = *weather)
\* instead of being replaced.
PutAssign_InPlace(r) ==
    /\ r \in Puts
    /\ reqs[r].pc = "u_assign"
    /\ LET new == heap[reqs[r].weather]
           old == MapLookup(weathers, new.City)
       IN IF old = Nil
          THEN /\ weathers' = MapAssign(weathers, new.City, reqs[r].weather)
               /\ UNCHANGED heap
          ELSE /\ heap' = [heap EXCEPT ![old] = new]
               /\ UNCHANGED weathers
    /\ stored' = stored \cup {heap[reqs[r].weather]}
    /\ writes' = Append(writes, Write(r, heap[reqs[r].weather].City, reqs[r].weather,
                                      heap[reqs[r].weather]))
    /\ reqs' = [reqs EXCEPT ![r].pc = "u_unlock"]
    /\ UNCHANGED <<mu, now>>

\* UpdateWeather, line 38: s.weathers[weather.City] = weather.
PutAssign(r) ==
    /\ r \in Puts
    /\ reqs[r].pc = "u_assign"
    /\ weathers' = UpdateWeather(weathers, heap, reqs[r].weather)
    /\ stored' = stored \cup {heap[reqs[r].weather]}
    /\ writes' = Append(writes, Write(r, heap[reqs[r].weather].City, reqs[r].weather,
                                      heap[reqs[r].weather]))
    /\ reqs' = [reqs EXCEPT ![r].pc = "u_unlock"]
    /\ UNCHANGED <<mu, heap, now>>

\* Mutant: UpdateWeather returns with the write lock still held.
PutUnlock_Skip(r) ==
    /\ r \in Puts
    /\ reqs[r].pc = "u_unlock"
    /\ reqs' = [reqs EXCEPT ![r].pc = "u_render"]
    /\ UNCHANGED <<weathers, mu, heap, now, stored, writes>>

\* UpdateWeather returns: the deferred s.mu.Unlock().
PutUnlock(r) ==
    /\ r \in Puts
    /\ reqs[r].pc = "u_unlock"
    /\ mu' = Unlock(mu)
    /\ reqs' = [reqs EXCEPT ![r].pc = "u_render"]
    /\ UNCHANGED <<weathers, heap, now, stored, writes>>

\* Mutant: the handler stamps the record once more before answering, after
\* it has handed it to the store.
PutRender_Restamp(r) ==
    /\ r \in Puts
    /\ reqs[r].pc = "u_render"
    /\ heap' = [heap EXCEPT ![reqs[r].weather].UpdatedAt = now]
    /\ reqs' = [reqs EXCEPT ![r].pc = "done", ![r].status = StatusOK,
                            ![r].resp = ToJSON(heap'[reqs[r].weather])]
    /\ UNCHANGED <<weathers, mu, now, stored, writes>>

\* Mutant: the answer is the entry the store has for the city at that time.
PutRender_FromStore(r) ==
    /\ r \in Puts
    /\ reqs[r].pc = "u_render"
    /\ reqs' = [reqs EXCEPT ![r].pc = "done", ![r].status = StatusOK,
                            ![r].resp = ToJSON(heap[MapLookup(weathers, reqs[r].city)])]
    /\ UNCHANGED <<weathers, mu, heap, now, stored, writes>>

\* render.JSON(w, r, weatherUpdate), line 128: weatherUpdate is passed by
\* value, so the answer is of the record as it is at the call.
PutRender(r) ==
    /\ r \in Puts
    /\ reqs[r].pc = "u_render"
    /\ reqs' = [reqs EXCEPT ![r].pc = "done", ![r].status = StatusOK,
                            ![r].resp = ToJSON(heap[reqs[r].weather])]
    /\ UNCHANGED <<weathers, mu, heap, now, stored, writes>>

updateWeatherHandler(r) ==
    \/ PutParam(r)
    \/ PutDecode(r)
    \/ PutSetCity(r)
    \/ PutStamp(r)
    \/ PutLock(r)
    \/ PutLockWake(r)
    \/ PutLockDrained(r)
    \/ PutAssign(r)
    \/ PutUnlock(r)
    \/ PutRender(r)

Next ==
    \/ \E c \in PathCities : StartGet(c)
    \/ \E c \in PathCities, b \in Bodies : StartPut(c, b)
    \/ \E r \in 1..MaxRequests : getWeatherHandler(r)
    \/ \E r \in 1..MaxRequests : updateWeatherHandler(r)

Spec == Init /\ [][Next]_vars

\* --------------------------------------------- GET requests without end
\* The server keeps accepting requests for as long as it runs. Here the
\* goroutine slot of an answered GET is taken by a newly arrived GET, so GET
\* requests keep arriving for ever while the PUTs stay within MaxRequests.
GetAgain(r, c) ==
    /\ r \in Gets
    /\ reqs[r].pc = "done"
    /\ Cardinality(InFlight) < MaxInFlight
    /\ reqs' = [reqs EXCEPT ![r] = NewRequest("GET", c, NoBody, "g_param")]
    /\ UNCHANGED <<weathers, mu, heap, now, stored, writes>>

\* The PUT requests of LiveSpec carry the body that names every field: a
\* body that fails to decode never gets to the lock.
LiveBodies == {b \in Bodies : b.wellformed /\ b.json # EmptyObject}

NextLive ==
    \/ \E c \in PathCities : StartGet(c)
    \/ \E c \in PathCities, b \in LiveBodies : StartPut(c, b)
    \/ \E r \in 1..MaxRequests : getWeatherHandler(r)
    \/ \E r \in 1..MaxRequests : updateWeatherHandler(r)
    \/ \E r \in 1..MaxRequests, c \in PathCities : GetAgain(r, c)

\* The steps of r from its RLock/Lock call to the matching release: being
\* woken at the lock, the body of the critical section, the release.
StoreStep(r) ==
    \/ GetRWake(r) \/ GetLookup(r) \/ GetRUnlock(r)
    \/ PutLockWake(r) \/ PutLockDrained(r) \/ PutAssign(r) \/ PutUnlock(r)

\* The Go scheduler runs every goroutine that can run: a goroutine that can
\* go on inside a store call is not left out for ever. Nothing is assumed
\* about arrivals or about the handlers outside the store calls.
Fairness == \A r \in 1..MaxRequests : WF_vars(StoreStep(r))

LiveSpec == Init /\ [][NextLive]_vars /\ Fairness

\* ================================================================== claims
\* The record a pointer refers to.
Deref(a) == heap[a]

\* r's call of GetWeather has returned (weather holds what it returned).
GetReturned(r) ==
    /\ r \in Gets
    /\ \/ reqs[r].pc \in {"g_check", "g_render"}
       \/ reqs[r].pc = "done" /\ reqs[r].status # StatusBadRequest

\* r is inside the critical section of GetWeather / of UpdateWeather.
InReadCS(r) == r \in Gets /\ reqs[r].pc \in {"g_lookup", "g_runlock"}

InWriteCS(r) == r \in Puts /\ reqs[r].pc \in {"u_assign", "u_unlock"}

\* The members of a (partly written) answer agree with the record w.
AgreesWith(resp, w) == \A k \in DOMAIN resp : resp[k] = ToJSON(w)[k]

\* C1: whatever the interleaving of GetWeather and UpdateWeather, the record
\* GetWeather returned, and the members the GET handler has serialized from
\* it so far, are those of one single record that an UpdateWeather call
\* stored: city, temperature and updatedAt together, never a mix of two.
C1_NoTornRead ==
    \A g \in Gets :
        /\ (InReadCS(g) \/ GetReturned(g)) /\ reqs[g].weather # Nil
              => Deref(reqs[g].weather) \in stored
        /\ reqs[g].resp # NoResp
              => \E w \in stored : AgreesWith(reqs[g].resp, w)
        /\ reqs[g].pc = "done" /\ reqs[g].status = StatusOK
              => \E w \in stored : reqs[g].resp = ToJSON(w)

\* A GET is in the middle of serializing a record that an UpdateWeather for
\* the same city has meanwhile replaced by one that differs in temperature
\* and in updatedAt.
C1_Witness ==
    \E g \in Gets :
        /\ reqs[g].pc = "g_render"
        /\ Cardinality(DOMAIN reqs[g].resp) = 1
        /\ reqs[g].city \in DOMAIN weathers
        /\ LET cur == weathers[reqs[g].city]
           IN /\ cur # reqs[g].weather
              /\ Deref(cur).Temperature # Deref(reqs[g].weather).Temperature
              /\ Deref(cur).UpdatedAt # Deref(reqs[g].weather).UpdatedAt

\* C2: while an UpdateWeather call is inside its critical section, no other
\* UpdateWeather call and no GetWeather call is inside its own, whatever the
\* cities the calls concern.
C2_WriterExcludesAll ==
    \A u \in Rids :
        InWriteCS(u) => \A o \in Rids \ {u} : ~InWriteCS(o) /\ ~InReadCS(o)

\* A writer is inside its critical section while a call that concerns
\* another city is parked at the lock.
C2_Witness ==
    \E u \in Rids, o \in Rids :
        /\ InWriteCS(u)
        /\ reqs[o].pc \in {"g_rwait", "u_park"}
        /\ reqs[o].city # reqs[u].city

\* The updates of g's city that had returned when g's GetWeather began.
SeenBy(g) == reqs[g].seenU

\* The records older than an update g has seen: those whose UpdateWeather had
\* returned before the UpdateWeather of a seen one began.
OlderThanSeen(g) == UNION {reqs[u].seenU : u \in SeenBy(g)}

\* The updates of city c whose UpdateWeather call has begun.
UpdateCalled(c) ==
    {u \in Puts : reqs[u].city = c
                  /\ reqs[u].pc \in {"u_park", "u_drain", "u_assign", "u_unlock"}}
    \cup {u \in UpdateReturned : reqs[u].city = c}

\* C3: a GetWeather that begins after an UpdateWeather for its city has
\* returned yields a record, and never one older than that update; when
\* UpdateWeather(r1) returned before UpdateWeather(r2) began and these are the
\* only updates of the city, a GetWeather that begins after the second has
\* returned yields r2.
C3_LastWriteWins ==
    \A g \in Gets :
        (InReadCS(g) /\ reqs[g].pc = "g_runlock") \/ GetReturned(g) =>
            /\ SeenBy(g) # {} => reqs[g].weather # Nil
            /\ reqs[g].weather \notin OlderThanSeen(g)
            /\ \A u1 \in SeenBy(g), u2 \in SeenBy(g) :
                  u1 \in reqs[u2].seenU /\ UpdateCalled(reqs[g].city) = {u1, u2}
                     => reqs[g].weather = u2

\* Two updates of one city, one after the other, and then a GET that got the
\* second one's record.
C3_Witness ==
    \E g \in Gets, u1 \in Puts, u2 \in Puts :
        /\ reqs[g].pc = "done"
        /\ reqs[g].status = StatusOK
        /\ SeenBy(g) = {u1, u2}
        /\ u1 \in reqs[u2].seenU
        /\ reqs[g].weather = u2
        /\ Deref(u1) # Deref(u2)

\* The temperature a request body carries: that of its temperature member,
\* the zero value when it has none.
BodyTemperature(r) ==
    IF "temperature" \in DOMAIN reqs[r].body.json
    THEN reqs[r].body.json["temperature"] ELSE ZeroWeather.Temperature

\* The PUTs for city c, answered 200, that had returned when request r came.
PutsBefore(r, c) ==
    {x \in reqs[r].seenH : reqs[x].city = c /\ reqs[x].status = StatusOK}

\* No PUT for the city of x is later than x: every other one had returned
\* when x came.
NoLaterPut(x) ==
    \A o \in Puts \ {x} : reqs[o].city = reqs[x].city => o \in reqs[x].seenH

\* C4: a GET for p that comes after a PUT for p has returned 200, with no
\* later PUT for p, answers 200 with city p, the temperature of that PUT's
\* body (0 when it carries none, whatever was stored before) and the
\* updatedAt the PUT answered.
C4_ReadAfterWrite ==
    \A g \in Gets : \A x \in PutsBefore(g, reqs[g].city) :
        reqs[g].pc = "done" /\ NoLaterPut(x) =>
            /\ reqs[g].status = StatusOK
            /\ reqs[g].resp["city"] = reqs[g].city
            /\ reqs[g].resp["temperature"] = BodyTemperature(x)
            /\ reqs[g].resp["updated_at"] = reqs[x].resp["updated_at"]

\* A PUT with a temperature, then a PUT of the same city without one, then a
\* GET of that city that answered temperature 0.
C4_Witness ==
    \E g \in Gets, x \in Puts, o \in Puts :
        /\ reqs[g].pc = "done"
        /\ x \in PutsBefore(g, reqs[g].city)
        /\ NoLaterPut(x)
        /\ o \in PutsBefore(x, reqs[g].city)
        /\ BodyTemperature(o) # 0
        /\ "temperature" \notin DOMAIN reqs[x].body.json
        /\ reqs[g].resp["temperature"] = 0

\* The UpdateWeather calls that have assigned a record of city c.
Performed(c) == {u \in UpdateAssigned : Deref(u).City = c}

\* C5: the store starts empty, and as long as no UpdateWeather has been
\* performed for city c, GetWeather(c) returns nil and the GET handler for a
\* non-empty c answers 404, whatever was done to other cities.
C5_NeverWrittenAbsent ==
    /\ UpdateAssigned = {} => DOMAIN weathers = {}
    /\ \A g \in Gets :
          Performed(reqs[g].city) = {} =>
              /\ (reqs[g].pc = "g_runlock" \/ GetReturned(g)) => reqs[g].weather = Nil
              /\ reqs[g].pc = "done" /\ reqs[g].city # ""
                    => reqs[g].status = StatusNotFound

\* A GET answered 404 for a city never written while another city is stored.
C5_Witness ==
    \E g \in Gets :
        /\ reqs[g].pc = "done"
        /\ reqs[g].status = StatusNotFound
        /\ Performed(reqs[g].city) = {}
        /\ DOMAIN weathers # {}

\* C6: every entry of the map under key c is a record whose city is c.
C6_KeyIsCity ==
    \A c \in DOMAIN weathers : Deref(weathers[c]).City = c

\* Both cities are stored, one of them by a PUT whose body named the other
\* city, while a GET is in progress.
C6_Witness ==
    /\ DOMAIN weathers = {"Moscow", "Paris"}
    /\ \E u \in Puts :
          /\ weathers[reqs[u].city] = u
          /\ "city" \in DOMAIN reqs[u].body.json
          /\ reqs[u].body.json["city"] # reqs[u].city
    /\ \E g \in Gets : reqs[g].pc # "done"

\* Request r takes a step.
Steps(r) == r \in Rids /\ reqs'[r] # reqs[r]

\* The entry under key k (nil when there is none) is the same after the step.
SameEntry(k) == MapLookup(weathers', k) = MapLookup(weathers, k)

\* The map is the same after the step: same keys, same pointers, and the
\* records behind them unchanged.
SameStore ==
    /\ weathers' = weathers
    /\ \A k \in DOMAIN weathers : heap'[weathers[k]] = heap[weathers[k]]

\* C7: the path is authoritative for the city. The UpdateWeather of a PUT
\* with path city p stores the request's record under key p with city p and
\* leaves every other key (the body's city among them) as it was, and the
\* 200 answer carries city p.
C7_PathAuthoritative ==
    /\ [][\A u \in Puts :
            reqs[u].pc = "u_assign" /\ Steps(u) =>
                /\ MapLookup(weathers', reqs[u].city) = u
                /\ heap'[u].City = reqs[u].city
                /\ \A k \in (DOMAIN weathers \cup DOMAIN weathers') \ {reqs[u].city} :
                      k \in DOMAIN weathers /\ k \in DOMAIN weathers' /\ SameEntry(k)]_vars
    /\ [](\A u \in PutAnswered : reqs[u].resp["city"] = reqs[u].city)

\* A PUT for Moscow whose body said Paris was answered 200 and its record is
\* the entry of Moscow, and so was one whose body named no city.
C7_Witness ==
    \E u \in PutAnswered, v \in PutAnswered :
        /\ "city" \in DOMAIN reqs[u].body.json
        /\ reqs[u].body.json["city"] # reqs[u].city
        /\ weathers[reqs[u].city] = u
        /\ "city" \notin DOMAIN reqs[v].body.json
        /\ reqs[u].body.json["city"] \notin DOMAIN weathers

\* The PUTs with a city and an undecodable body.
MalformedPuts == {u \in Puts : reqs[u].city # "" /\ ~reqs[u].body.wellformed}

\* C8: a PUT with a non-empty city and a malformed body answers 400, never
\* calls UpdateWeather, and none of its steps changes the store.
C8_MalformedBodyRejected ==
    /\ [](\A u \in MalformedPuts :
            /\ reqs[u].pc \in {"u_param", "u_decode", "done"}
            /\ reqs[u].pc = "done" => reqs[u].status = StatusBadRequest
            /\ u \notin UpdateCalled(reqs[u].city)
            /\ \A k \in DOMAIN weathers : weathers[k] # u)
    /\ [][\A u \in MalformedPuts : Steps(u) => SameStore /\ mu' = mu /\ stored' = stored]_vars

\* A PUT with a malformed body was answered while the store held an entry
\* for its city.
C8_Witness ==
    \E u \in MalformedPuts :
        /\ reqs[u].pc = "done"
        /\ reqs[u].status = StatusBadRequest
        /\ reqs[u].city \in DOMAIN weathers

\* The requests whose city is empty.
EmptyCity == {r \in Rids : reqs[r].city = ""}

\* C9: a GET or PUT with an empty city answers 400 whatever its body, calls
\* neither GetWeather nor UpdateWeather, decodes nothing, and leaves the
\* store and its lock alone; no entry is ever stored under the empty key.
C9_EmptyCityRejected ==
    /\ [](\A r \in EmptyCity :
            /\ reqs[r].pc \in {"g_param", "u_param", "done"}
            /\ reqs[r].pc = "done" => reqs[r].status = StatusBadRequest
            /\ r \notin DOMAIN heap)
    /\ []("" \notin DOMAIN weathers)
    /\ [][\A r \in EmptyCity : Steps(r) => SameStore /\ mu' = mu /\ heap' = heap]_vars

\* A GET, a PUT with a well-formed body and a PUT with a malformed one, all
\* with an empty city, were answered 400.
C9_Witness ==
    \E g \in Gets, u \in Puts, v \in Puts :
        /\ {g, u, v} \subseteq EmptyCity
        /\ reqs[g].status = StatusBadRequest
        /\ reqs[u].status = StatusBadRequest /\ reqs[u].body.wellformed
        /\ reqs[v].status = StatusBadRequest /\ ~reqs[v].body.wellformed

\* C10: no step of a GET request, GetWeather included, changes the map: the
\* keys, the pointers and the records stored are the same after it.
C10_GetReadsOnly ==
    [][\A g \in Gets : Steps(g) => SameStore /\ stored' = stored]_vars

\* With a city stored, one GET was answered 200 and another 404.
C10_Witness ==
    \E g \in Gets, h \in Gets :
        /\ reqs[g].pc = "done" /\ reqs[g].status = StatusOK
        /\ reqs[h].pc = "done" /\ reqs[h].status = StatusNotFound
        /\ DOMAIN weathers # {}

\* The positions in the history of the assignments made by request u, and of
\* those made under key k.
WritesBy(u) == {i \in 1..Len(writes) : writes[i].by = u}

WritesTo(k) == {i \in 1..Len(writes) : writes[i].key = k}

\* The keys ever assigned.
Written == {writes[i].key : i \in 1..Len(writes)}

\* The last assignment made under key k.
LastWrite(k) == writes[CHOOSE i \in WritesTo(k) : \A j \in WritesTo(k) : j <= i]

\* C11: a PUT answered 200 for city p has made exactly one store mutation,
\* under key p, and a PUT answered 400 none; every change of the map is one
\* such mutation, and it leaves the entry (or the absence) of every other
\* key as it was.
C11_OneMutationPerPut ==
    /\ [](\A u \in Puts :
            reqs[u].pc = "done" =>
                /\ Cardinality(WritesBy(u)) = (IF reqs[u].status = StatusOK THEN 1 ELSE 0)
                /\ \A i \in WritesBy(u) : writes[i].key = reqs[u].city)
    /\ [][/\ (weathers' # weathers) = (Len(writes') # Len(writes))
          /\ weathers' # weathers =>
                /\ Len(writes') = Len(writes) + 1
                /\ LET w == writes'[Len(writes')]
                   IN /\ w.by \in Puts /\ Steps(w.by) /\ reqs[w.by].pc = "u_assign"
                      /\ MapLookup(weathers', w.key) = w.ptr
                      /\ \A k \in (DOMAIN weathers \cup DOMAIN weathers') \ {w.key} :
                            /\ (k \in DOMAIN weathers) = (k \in DOMAIN weathers')
                            /\ SameEntry(k)]_vars

\* A PUT for Moscow answered 200 after Paris was stored, Paris still being
\* there, and another PUT was answered 400.
C11_Witness ==
    \E u \in PutAnswered, v \in Puts :
        /\ reqs[u].city = "Moscow"
        /\ "Paris" \in DOMAIN weathers
        /\ \E i \in WritesTo("Paris"), j \in WritesBy(u) : i < j
        /\ reqs[v].pc = "done" /\ reqs[v].status = StatusBadRequest

\* Requests x and y are the same PUT sent twice.
SamePut(x, y) ==
    /\ x \in Puts /\ y \in Puts
    /\ reqs[x].city = reqs[y].city
    /\ reqs[x].body = reqs[y].body

\* C12: UpdateWeather is idempotent: on every store state and for every
\* record, doing it twice leaves the map as doing it once does. Through the
\* handler, the same PUT sent twice is stored under the same key with the
\* same city and temperature both times (updatedAt may differ), and adds no
\* key.
C12_PutIdempotent ==
    /\ \A a \in DOMAIN heap :
          UpdateWeather(UpdateWeather(weathers, heap, a), heap, a)
             = UpdateWeather(weathers, heap, a)
    /\ \A i \in 1..Len(writes), j \in 1..Len(writes) :
          SamePut(writes[i].by, writes[j].by) =>
              /\ writes[i].key = writes[j].key
              /\ writes[i].rec.City = writes[j].rec.City
              /\ writes[i].rec.Temperature = writes[j].rec.Temperature
    /\ DOMAIN weathers = Written

\* The same PUT was answered twice, at different times of the clock, after a
\* PUT of the same city with another temperature; the entry is the latest.
C12_Witness ==
    \E x \in PutAnswered, y \in PutAnswered, z \in PutAnswered :
        /\ x # y /\ SamePut(x, y)
        /\ reqs[z].city = reqs[x].city
        /\ Deref(z).Temperature # Deref(x).Temperature
        /\ Deref(x).UpdatedAt # Deref(y).UpdatedAt
        /\ weathers[reqs[y].city] = y
        /\ Cardinality(DOMAIN weathers) = 1

\* The PUT requests that have stamped their record (line 122 done).
Stamped ==
    {u \in Puts : reqs[u].pc \in {"u_lock", "u_park", "u_drain", "u_assign", "u_unlock"}}
    \cup UpdateReturned

\* C13: updatedAt is the server's. The record a PUT stores and answers
\* carries a value the server clock has shown, whatever updated_at the body
\* carried, and a PUT that arrives after another PUT for the same city was
\* answered stores no smaller updatedAt than that one.
C13_ServerTime ==
    /\ \A u \in Stamped :
          /\ Deref(u).UpdatedAt \in 1..now
          /\ Deref(u).UpdatedAt # ClientTime
    /\ \A i \in 1..Len(writes) :
          writes[i].rec.UpdatedAt \in 1..now
    /\ \A u \in PutAnswered :
          /\ reqs[u].resp["updated_at"] \in 1..now
          /\ \A i \in WritesBy(u) : reqs[u].resp["updated_at"] = writes[i].rec.UpdatedAt
    /\ \A x \in PutAnswered, y \in Stamped :
          x \in reqs[y].seenH /\ reqs[x].city = reqs[y].city
             => Deref(y).UpdatedAt >= reqs[x].resp["updated_at"]

\* A PUT whose body carried a client time was answered with a later server
\* time than the PUT of the same city answered before it.
C13_Witness ==
    \E x \in PutAnswered, y \in PutAnswered :
        /\ x \in reqs[y].seenH /\ reqs[x].city = reqs[y].city
        /\ "updated_at" \in DOMAIN reqs[y].body.json
        /\ reqs[y].body.json["updated_at"] = ClientTime
        /\ reqs[y].resp["updated_at"] > reqs[x].resp["updated_at"]
        /\ weathers[reqs[y].city] = y

\* C14: the body of a 200 PUT answer is, field for field, the record this
\* call stored through UpdateWeather (also when another PUT has replaced the
\* entry in the meantime), and the record it is about to answer from is
\* already that one when UpdateWeather returns.
C14_PutAnswersOwnRecord ==
    \A u \in UpdateReturned :
        /\ WritesBy(u) # {}
        /\ \A i \in WritesBy(u) :
              /\ writes[i].ptr = reqs[u].weather
              /\ ToJSON(Deref(reqs[u].weather)) = ToJSON(writes[i].rec)
              /\ u \in PutAnswered =>
                    /\ reqs[u].resp = ToJSON(writes[i].rec)
                    /\ \A k \in DOMAIN writes[i].rec :
                          reqs[u].resp[JsonTag(k)] = writes[i].rec[k]

\* u was answered with its own record although v, a different record for
\* the same city, had replaced u's entry before: v was stored after u and
\* already answered when request g arrived, and u was answered after that.
C14_Witness ==
    \E u \in PutAnswered, v \in PutAnswered, g \in Rids :
        /\ reqs[u].city = reqs[v].city
        /\ \E i \in WritesBy(u), j \in WritesBy(v) : i < j
        /\ v \in reqs[g].seenH
        /\ u \notin reqs[g].seenH
        /\ Deref(u) # Deref(v)
        /\ weathers[reqs[u].city] = v
        /\ reqs[u].resp = ToJSON(Deref(u))

\* C15: records are immutable by replacement. A record that UpdateWeather
\* stored has the fields it had when it was stored, every update installs a
\* record of its own, and the record behind a pointer GetWeather returned is
\* a stored one, still with the values it was stored with, whatever PUTs came
\* later.
C15_RecordsImmutable ==
    /\ \A i \in 1..Len(writes) : Deref(writes[i].ptr) = writes[i].rec
    /\ \A i \in 1..Len(writes), j \in 1..Len(writes) :
          i # j => writes[i].ptr # writes[j].ptr
    /\ \A c \in DOMAIN weathers : weathers[c] = LastWrite(c).ptr
    /\ \A g \in Gets :
          (InReadCS(g) \/ GetReturned(g)) /\ reqs[g].weather # Nil =>
              \E i \in 1..Len(writes) :
                  /\ writes[i].ptr = reqs[g].weather
                  /\ Deref(reqs[g].weather) = writes[i].rec

\* A GET was answered from a record that a later PUT for the city, answered
\* before the GET was, had replaced by a different one.
C15_Witness ==
    \E g \in Gets, u \in PutAnswered :
        /\ reqs[g].pc = "done" /\ reqs[g].status = StatusOK
        /\ reqs[u].city = reqs[g].city
        /\ weathers[reqs[g].city] = u
        /\ reqs[g].weather # u
        /\ Deref(u) # Deref(reqs[g].weather)
        /\ reqs[g].resp = ToJSON(Deref(reqs[g].weather))

\* The positions of a goroutine inside a call of GetWeather or UpdateWeather
\* (the others are in the handler proper: parameter, body, clock, answer).
StorePcs == {"g_rwait", "g_lookup", "g_runlock", "u_park", "u_drain", "u_assign", "u_unlock"}

InStore == {r \in Rids : reqs[r].pc \in StorePcs}

\* r is kept waiting at the lock: parked, and the lock has not been handed
\* to it (a reader) or cannot be taken by it now (a writer).
KeptWaiting(r) ==
    \/ reqs[r].pc = "g_rwait" /\ r \notin mu.readers
    \/ reqs[r].pc = "u_park" /\ LockMustWait(mu)
    \/ reqs[r].pc = "u_drain" /\ ~WriterHolds(mu, r)

\* r has the lock: it is inside its critical section, or the lock was handed
\* to it and its RLock/Lock is about to return.
HasLock(r) ==
    \/ InReadCS(r) \/ InWriteCS(r)
    \/ reqs[r].pc = "g_rwait" /\ r \in mu.readers
    \/ reqs[r].pc = "u_drain" /\ WriterHolds(mu, r)

\* The UpdateWeather calls that hold the write lock or wait for it.
Writers == {u \in Puts : reqs[u].pc \in {"u_park", "u_drain", "u_assign", "u_unlock"}}

\* C17: readers share the lock. A GetWeather call is kept waiting only by an
\* UpdateWeather call that holds or waits for the write lock, never by other
\* GetWeather calls; with no such writer every GetWeather call that has done
\* its RLock has the read lock.
C17_ReadersShare ==
    /\ \A g \in Gets : KeptWaiting(g) => Writers # {} /\ mu.w \in Writers
    /\ Writers = {} =>
          /\ mu.rblocked = {}
          /\ \A g \in Gets : reqs[g].pc \in StorePcs => g \in mu.readers

\* Two GetWeather calls for the same stored city are inside their critical
\* sections at the same time.
C17_Witness ==
    \E g \in Gets, h \in Gets :
        /\ g # h
        /\ InReadCS(g) /\ InReadCS(h)
        /\ reqs[g].city = reqs[h].city
        /\ reqs[g].city \in DOMAIN weathers
        /\ Writers = {}

\* C18: no update is lost. Every city an UpdateWeather was performed for is
\* in the map, and its entry is the record of one PUT for that city: the
\* last one that held the write lock for it, with the fields that PUT stored.
\* So every PUT answered 200 finds its city present, with its own record or
\* the record of a PUT that stored after it.
C18_NoLostUpdate ==
    /\ \A c \in Written :
          /\ c \in DOMAIN weathers
          /\ weathers[c] = LastWrite(c).ptr
          /\ Deref(weathers[c]) = LastWrite(c).rec
          /\ LastWrite(c).by \in Puts
          /\ reqs[LastWrite(c).by].city = c
    /\ \A u \in UpdateAssigned :
          /\ reqs[u].city \in DOMAIN weathers
          /\ \/ weathers[reqs[u].city] = u
             \/ \E i \in WritesBy(u), j \in WritesTo(reqs[u].city) :
                   i < j /\ weathers[reqs[u].city] = writes[j].ptr

\* All requests are answered; two PUTs for different cities ran concurrently
\* (neither was answered when the other arrived) and both entries are there.
C18_Witness ==
    \E u \in PutAnswered, v \in PutAnswered :
        /\ InFlight = {}
        /\ reqs[u].city # reqs[v].city
        /\ u \notin reqs[v].seenH /\ v \notin reqs[u].seenH
        /\ weathers[reqs[u].city] = u
        /\ weathers[reqs[v].city] = v

\* C19: the lock is held only inside GetWeather and UpdateWeather. A handler
\* that checks the parameter, decodes the body, sets the city, stamps the
\* time or writes the answer has neither the read lock nor the write lock
\* and is not queued at it, so whoever is kept waiting at the lock waits for
\* a request that is inside a store call.
C19_LockOnlyInStore ==
    /\ \A r \in Rids :
          reqs[r].pc \notin StorePcs =>
              /\ r \notin mu.readers
              /\ mu.w # r
              /\ r \notin mu.rblocked
              /\ r \notin mu.wblocked
    /\ \A r \in Rids :
          KeptWaiting(r) => \E o \in InStore \ {r} : HasLock(o) \/ mu.w = o

\* One handler is writing its answer and another decoding, stamping or
\* answering too, while the lock is free.
C19_Witness ==
    \E r \in Puts, o \in Rids :
        /\ r # o
        /\ reqs[r].pc = "u_render"
        /\ reqs[o].pc \in {"u_decode", "u_stamp", "g_render"}
        /\ mu = NewRWMutex
        /\ DOMAIN weathers # {}

\* Some request in flight can take a step.
CanStep(r) == reqs[r].pc # "done" /\ ~KeptWaiting(r)

\* C20: every GetWeather and UpdateWeather call releases the lock it took.
\* With no store call in progress the lock is free; the holders of the read
\* lock are exactly the GetWeather calls that have taken it and not yet
\* released it, the pending or holding writer is exactly the UpdateWeather
\* call between its Lock and its Unlock; and whenever a call is kept waiting
\* at the lock, some call has the lock and can go on (no deadlock).
C20_LockReleased ==
    /\ InStore = {} => mu = NewRWMutex
    /\ mu.readers = {g \in Gets : HasLock(g)}
    /\ Cardinality(mu.readers) = Cardinality({g \in Gets : HasLock(g)})
    /\ mu.rblocked = {g \in Gets : reqs[g].pc = "g_rwait" /\ ~HasLock(g)}
    /\ mu.wblocked = {u \in Puts : reqs[u].pc = "u_park"}
    /\ \A u \in Puts : (mu.w = u) = (reqs[u].pc \in {"u_drain", "u_assign", "u_unlock"})
    /\ mu.w # Nil => mu.w \in Puts
    /\ (\E r \in Rids : KeptWaiting(r)) => \E o \in Rids : HasLock(o) /\ CanStep(o)
    /\ InFlight # {} => \E r \in InFlight : CanStep(r)

\* Every request has been answered, among them a GET that went through
\* GetWeather and a PUT that went through UpdateWeather, and the lock is
\* free again.
C20_Witness ==
    \E g \in Gets, u \in PutAnswered :
        /\ InFlight = {}
        /\ Len(reqs) = MaxRequests
        /\ reqs[g].status \in {StatusOK, StatusNotFound}
        /\ Len(writes) >= 1
        /\ mu = NewRWMutex

\* r's UpdateWeather call has called Lock and does not have the lock yet.
WaitingWriter(r) == r \in Puts /\ reqs[r].pc \in {"u_park", "u_drain"}

\* C16: readers cannot starve a writer. Under LiveSpec, where GET requests
\* keep arriving without end, every UpdateWeather call that waits for the
\* write lock eventually has had it and has returned, given only that the
\* calls inside the store keep being scheduled.
C16_WriterNotStarved ==
    \A r \in 1..MaxRequests : WaitingWriter(r) ~> (r \in UpdateReturned)

\* A PUT is the pending writer, and a GET that arrived while it waits is
\* parked at RLock behind it.
C16_Witness ==
    \E u \in Puts, g \in Gets :
        /\ reqs[u].pc = "u_drain"
        /\ mu.w = u
        /\ reqs[g].pc = "g_rwait"
        /\ g \in mu.rblocked
====
